---- MODULE Spec2Model ----
(***************************************************************************)
(* Model of deepin_term_agent.mcp.client.MCPClient: one client object, the *)
(* coroutines that run its methods on one asyncio event loop, and the      *)
(* remote server and transport it talks to.  A step of the model is what   *)
(* one coroutine does between two suspension points (await).  With it, of  *)
(* deepin_term_agent.agent.agent, the ToolExecutor (registry, catalog and  *)
(* dispatch) and the TerminalAgent (a turn of process_message, with and    *)
(* without a model client), and of deepin_term_agent.tools.builtin the     *)
(* handlers of run_command, read_file and write_file.                      *)
(***************************************************************************)
EXTENDS Integers, Sequences, FiniteSets, TLC

(* ------------------------------ bounds -------------------------------- *)
\* number of _send_request invocations (connect's own two included) on a
\* client whose connect() is called once, as ToolExecutor.initialize does
MaxCalls == 4
\* the same, on a client whose connect() may be called again
MaxCallsAgain == 3
VARIABLES
    websocket,      \* self.websocket: 0 is None, k > 0 the k-th transport opened
    sock,           \* state of every transport opened so far: "open", "closed"
    connected,      \* self.connected
    tools,          \* self.tools: "empty" ([]) or "catalog" (the parsed list)
    message_id,     \* self._message_id
    pending,        \* self._pending_requests: id string -> index of the call owning the future
    calls,          \* the _send_request invocations, in the order they were entered
    connPc,         \* position of the connect() coroutine
    discPc,         \* position of the disconnect() coroutine
    listener,       \* per transport: the _handle_messages coroutine reading it
    mcp_clients,    \* ToolExecutor.mcp_clients: the connected servers, in insertion order
    conversation_history,   \* TerminalAgent.conversation_history
    turn,           \* the process_message coroutine: its position and locals
    invoked,        \* log: the handler and call_tool invocations of the operation in progress
    ret,            \* what the last ToolExecutor / TerminalAgent operation returned or raised
    llm_client,     \* TerminalAgent.llm_client: FALSE is None
    files           \* the file system the built-in tools work on: path -> text

\* the state of one MCPClient and its coroutines
vars == <<websocket, sock, connected, tools, message_id, pending, calls,
          connPc, discPc, listener>>

\* the state of the TerminalAgent and its ToolExecutor
avars == <<mcp_clients, conversation_history, turn, invoked, ret>>

\* the model client of the agent and the files of the machine
tvars == <<llm_client, files>>

allvars == <<vars, avars, tvars>>

Socks == 1..Len(sock)

CallIds == 1..Len(calls)

(* ------------------------- str(self._message_id) ---------------------- *)
Digits == <<"0", "1", "2", "3", "4", "5", "6", "7", "8", "9">>

RECURSIVE str(_)
str(n) == IF n < 10 THEN Digits[n + 1]
          ELSE str(n \div 10) \o Digits[(n % 10) + 1]

(* ------------------------------ frames -------------------------------- *)
\* What the server can put on the wire.  body is the meaning of the text:
\*   "invalid"  not JSON, or JSON that MCPMessage rejects
\*   "error"    an envelope with an error member
\*   "plain"    a result without a "tools" member (null, {}, any other value)
\*   "tools"    result: {"tools": [well-formed descriptors]}
\*   "badtools" result: {"tools": [a descriptor MCPTool rejects]}
\* sock is the transport the frame travels on, id its id member ("" if none).
Bodies == {"invalid", "error", "plain", "tools", "badtools"}

Frame(k, i, b) == [sock |-> k, id |-> i, body |-> b]

NoFrame == [id |-> "", body |-> "none"]

(* --------------------- pieces of MCPClient._send_request -------------- *)
\* message_id = str(self._message_id)
AllocId(m) == str(m)

\* (variant: a counter that wraps around)
NextMessageIdWraps(m) == (m + 1) % 2

\* self._message_id += 1
NextMessageId(m) == m + 1

\* self._pending_requests[message_id] = future
Register(p, id, c) ==
    [x \in (DOMAIN p) \cup {id} |-> IF x = id THEN c ELSE p[x]]

\* (variant: the entry is never removed)
UnregisterKeeps(p, id) == p

\* (variant: the whole table is dropped with the entry)
UnregisterAll(p, id) == [x \in {} |-> 0]

\* self._pending_requests.pop(message_id, None)
Unregister(p, id) == [x \in (DOMAIN p) \ {id} |-> p[x]]

\* The record of one _send_request invocation, as it stands at its first await:
\*   pc    "send" (in websocket.send), "wait" (in asyncio.wait_for), "done"
\*   fut   the future: "pending", "result", "exception", "cancelled"
\*   got   the frame the listener completed the future with
\*   out   how the invocation ended: "none" (not yet), "result", "error",
\*         "timeout" (asyncio.TimeoutError), "closed" (send raised ConnectionClosed)
\*   atDisc  history: the invocation was outstanding when a disconnect() closed a transport
\*   late    history: the listener handled a frame carrying this id after the
\*           invocation had timed out
NewCall(m, method, owner, ws) ==
    [id |-> AllocId(m), method |-> method, owner |-> owner, sock |-> ws,
     pc |-> "send", fut |-> "pending", got |-> NoFrame, out |-> "none",
     atDisc |-> FALSE, late |-> FALSE]

\* (variant: the TimeoutError is logged and not raised again)
OutcomeSwallowsTimeout(fut) ==
    CASE fut = "result" -> "result"
      [] fut = "exception" -> "error"
      [] fut = "cancelled" -> "result"

\* The outcome wait_for reports for a future that is no longer pending.
Outcome(fut) ==
    CASE fut = "result" -> "result"
      [] fut = "exception" -> "error"
      [] fut = "cancelled" -> "timeout"

\* requests the connect() in progress still has to make
Reserved == CASE connPc = "opening" -> 2
              [] connPc = "initialize" -> 1
              [] OTHER -> 0

(* --------------------------------- Init ------------------------------- *)
\* ToolExecutor.__init__ and TerminalAgent.__init__
AgentInit ==
    /\ mcp_clients = <<>>
    /\ conversation_history = <<>>
    /\ turn = [pc |-> "idle", message |-> <<>>, request |-> <<>>,
               response |-> [kind |-> "none", content |-> "", tool_calls |-> <<>>],
               i |-> 0, results |-> <<>>, ncalls |-> 0, tools |-> <<>>]
    /\ invoked = <<>>
    /\ ret = [op |-> "none"]
    /\ llm_client = FALSE
    /\ files = [p \in {} |-> <<>>]

\* MCPClient.__init__
ClientInit ==
    /\ websocket = 0
    /\ sock = <<>>
    /\ connected = FALSE
    /\ tools = "empty"
    /\ message_id = 0
    /\ pending = [x \in {} |-> 0]
    /\ calls = <<>>
    /\ connPc = "idle"
    /\ discPc = "idle"
    /\ listener = <<>>

Init == ClientInit /\ AgentInit

(* ------------------------------- connect ------------------------------ *)
\* connect() is entered and suspends in websockets.connect(self.server_url);
\* for the first time, or (again) after an earlier connect() has returned, a
\* disconnect() has closed its transport and the listener of that transport,
\* if one was started, has ended.
ConnectBegin(cap, again) ==
    /\ connPc \in (IF again THEN {"idle", "ready", "failed"} ELSE {"idle"})
    /\ discPc = "idle"
    /\ websocket # 0 => sock[websocket] = "closed" /\ listener[websocket] # "running"
    /\ Len(calls) + 2 <= cap
    /\ connPc' = "opening"
    /\ UNCHANGED <<websocket, sock, connected, tools, message_id, pending, calls,
                   discPc, listener>>

\* websockets.connect raised: the except clause returns False.
ConnectRefused ==
    /\ connPc = "opening"
    /\ connPc' = "failed"
    /\ UNCHANGED <<websocket, sock, connected, tools, message_id, pending, calls,
                   discPc, listener>>

\* the transport websockets.connect returns next
NewSock == Len(sock) + 1

\* websockets.connect returned the transport; connect() stores it and runs
\* _send_request("initialize", ...) up to its first await (websocket.send).
ConnectOpened ==
    /\ connPc = "opening"
    /\ websocket' = NewSock
    /\ sock' = Append(sock, "open")
    /\ listener' = Append(listener, "off")
    /\ calls' = Append(calls, NewCall(message_id, "initialize", "connect", NewSock))
    /\ pending' = Register(pending, AllocId(message_id), Len(calls) + 1)
    /\ message_id' = NextMessageId(message_id)
    /\ connPc' = "initialize"
    /\ UNCHANGED <<connected, tools, discPc>>

\* What connect() does when the _send_request it awaits has ended with outcome o
\* (frame f delivered), in the same step: after "initialize" it enters
\* _send_request("tools/list", {}) up to its first await; after "tools/list" it
\* reads the catalog, sets self.connected and returns True; an exception of
\* either request, or of MCPTool(**tool), ends in the except clause (return False).
ConnectContinue(cs, p, method, o, f) ==
    CASE method = "initialize" /\ o = "result" ->
            /\ calls' = Append(cs, NewCall(message_id, "tools/list", "connect", websocket))
            /\ pending' = Register(p, AllocId(message_id), Len(cs) + 1)
            /\ message_id' = NextMessageId(message_id)
            /\ connPc' = "tools_list"
            /\ UNCHANGED <<connected, tools>>
      [] method = "tools/list" /\ o = "result" /\ f.body = "tools" ->
            /\ tools' = "catalog"
            /\ connected' = TRUE
            /\ connPc' = "ready"
            /\ calls' = cs /\ pending' = p
            /\ UNCHANGED message_id
      [] method = "tools/list" /\ o = "result" /\ f.body = "plain" ->
            /\ connected' = TRUE
            /\ connPc' = "ready"
            /\ calls' = cs /\ pending' = p
            /\ UNCHANGED <<tools, message_id>>
      [] OTHER ->
            /\ connPc' = "failed"
            /\ calls' = cs /\ pending' = p
            /\ UNCHANGED <<connected, tools, message_id>>

\* _send_request invocation c leaves its try block with outcome o: the finally
\* clause pops its id, and its caller goes on.
Finish(c, o) ==
    LET cs == [calls EXCEPT ![c].pc = "done", ![c].out = o]
        p  == Unregister(pending, calls[c].id)
    IN  IF calls[c].owner = "connect"
        THEN ConnectContinue(cs, p, calls[c].method, o, calls[c].got)
        ELSE /\ calls' = cs
             /\ pending' = p
             /\ UNCHANGED <<connected, tools, message_id, connPc>>

(* ---------------------------- _send_request --------------------------- *)
\* call_tool(name, arguments) on a connected client: _send_request("tools/call", ...)
\* up to its first await.
CallTool(cap) ==
    /\ connected
    /\ websocket # 0
    /\ Len(calls) + Reserved < cap
    /\ calls' = Append(calls, NewCall(message_id, "tools/call", "call_tool", websocket))
    /\ pending' = Register(pending, AllocId(message_id), Len(calls) + 1)
    /\ message_id' = NextMessageId(message_id)
    /\ UNCHANGED <<websocket, sock, connected, tools, connPc, discPc, listener>>

\* call_tool(name, arguments) on a client that is not connected:
\* raise RuntimeError("Not connected to MCP server"), before anything else.
CallToolRefused ==
    /\ ~connected
    /\ ret' = [op |-> "call_tool", raised |-> TRUE, exc |-> "RuntimeError"]
    /\ UNCHANGED vars

\* websocket.send returned: the invocation enters asyncio.wait_for(future, 30.0).
SendDone(c) ==
    /\ calls[c].pc = "send"
    /\ sock[calls[c].sock] = "open"
    /\ calls' = [calls EXCEPT ![c].pc = "wait"]
    /\ UNCHANGED <<websocket, sock, connected, tools, message_id, pending, connPc,
                   discPc, listener>>

\* websocket.send raised ConnectionClosed: the transport is closed.
SendFail(c) ==
    /\ calls[c].pc = "send"
    /\ sock[calls[c].sock] = "closed"
    /\ Finish(c, "closed")
    /\ UNCHANGED <<websocket, sock, discPc, listener>>

\* The timeout of wait_for cancels the future of invocation c.
Expire(cs, c) == [cs EXCEPT ![c].fut = "cancelled"]

\* The 30 seconds of wait_for have passed with the future still pending: the
\* timeout cancels the future; the invocation resumes in a later step.  The
\* model does not measure time: any number of steps fits into 30 seconds.
DeadlineExpires(c) ==
    /\ calls[c].pc = "wait"
    /\ calls[c].fut = "pending"
    /\ calls' = Expire(calls, c)
    /\ UNCHANGED <<websocket, sock, connected, tools, message_id, pending, connPc,
                   discPc, listener>>

\* wait_for returns the future's result or raises its exception or TimeoutError.
Resume(c) ==
    /\ calls[c].pc = "wait"
    /\ calls[c].fut # "pending"
    /\ Finish(c, Outcome(calls[c].fut))
    /\ UNCHANGED <<websocket, sock, discPc, listener>>

(* --------------------------- _handle_messages ------------------------- *)
\* (variant: a frame with an id completes any pending request)
MatchingAny(p, f) == IF f.id # "" THEN DOMAIN p ELSE {}

\* The ids of the pending table an incoming frame completes:
\* message.id and message.id in self._pending_requests.
Matching(p, f) == IF f.id # "" /\ f.id \in DOMAIN p THEN {f.id} ELSE {}

\* The call record after the listener handled frame f for its future:
\* if not future.done(): set_exception(...) if message.error else set_result(...)
Complete(call, f) ==
    IF call.fut # "pending" THEN call
    ELSE [call EXCEPT !.fut = IF f.body = "error" THEN "exception" ELSE "result",
                      !.got = [id |-> f.id, body |-> f.body]]

\* history: frame f was handled; the invocations that had timed out under its id
MarkLate(cs, f) ==
    [c \in DOMAIN cs |->
        IF f.body # "invalid" /\ cs[c].id = f.id /\ cs[c].out = "timeout"
        THEN [cs[c] EXCEPT !.late = TRUE] ELSE cs[c]]

\* _handle_messages() is scheduled as a task on the transport the client holds.
\* connect() does not schedule it; a program that embeds the client may.
StartListener(k) ==
    /\ websocket = k
    /\ listener[k] = "off"
    /\ listener' = [listener EXCEPT ![k] = "running"]
    /\ UNCHANGED <<websocket, sock, connected, tools, message_id, pending, calls,
                   connPc, discPc>>

\* One iteration of "async for raw_message in self.websocket": frame f arrives
\* and is handled.  json.loads or MCPMessage(**message_data) raising is caught
\* and logged inside the loop.
HandleMessage(f) ==
    /\ listener[f.sock] = "running"
    /\ IF f.body = "invalid" \/ Matching(pending, f) = {}
       THEN /\ UNCHANGED pending
            /\ calls' = MarkLate(calls, f)
       ELSE \E i \in Matching(pending, f) :
                /\ pending' = Unregister(pending, i)
                /\ calls' = MarkLate([calls EXCEPT ![pending[i]] = Complete(@, f)], f)
    /\ UNCHANGED <<websocket, sock, connected, tools, message_id, connPc, discPc,
                   listener>>

\* The iteration over a closed transport ends, and the coroutine with it.
ListenerEnd(k) ==
    /\ listener[k] = "running"
    /\ sock[k] = "closed"
    /\ listener' = [listener EXCEPT ![k] = "ended"]
    /\ UNCHANGED <<websocket, sock, connected, tools, message_id, pending, calls,
                   connPc, discPc>>

\* The ids a frame may carry: none, those of the requests made so far, and one
\* that no request made so far carries.
FrameIds == {""} \cup {str(n) : n \in 0..message_id}

\* The bodies the server sends under id i: a catalog only in answer to a
\* "tools/list" request.
BodiesFor(i) ==
    IF \E c \in CallIds : calls[c].id = i /\ calls[c].method = "tools/list"
    THEN Bodies ELSE {"invalid", "error", "plain"}

\* The frames that can arrive on transport k.
Frames(k) ==
    {f \in {Frame(k, i, b) : i \in FrameIds, b \in Bodies} :
        f.body \in BodiesFor(f.id)}

(* ------------------------------ disconnect ---------------------------- *)
\* await self.websocket.close(), for the transport ws the client holds
CloseTransport(s, ws) == IF ws = 0 THEN s ELSE [s EXCEPT ![ws] = "closed"]

\* (variant: the flag is flipped)
AfterCloseFlips(conn) == ~conn

\* self.connected = False
AfterClose(conn) == FALSE

\* What a client state st = [websocket, sock, connected, pending, calls] is
\* after a disconnect() that ran from its entry to its return.
Disconnected(st) ==
    IF st.websocket = 0 THEN st
    ELSE [st EXCEPT !.sock = CloseTransport(st.sock, st.websocket),
                    !.connected = AfterClose(st.connected)]

\* history: the invocations outstanding when a disconnect() closes the
\* transport: those in the pending table p whose future is still pending
MarkOutstanding(cs, p) ==
    [c \in DOMAIN cs |->
        IF cs[c].pc # "done" /\ cs[c].fut = "pending" /\ cs[c].id \in DOMAIN p
        THEN [cs[c] EXCEPT !.atDisc = TRUE] ELSE cs[c]]

\* What of the client a caller can observe.
Obs ==
    [websocket |-> websocket, sock |-> sock, connected |-> connected,
     pending |-> pending,
     calls |-> [c \in CallIds |-> <<calls[c].pc, calls[c].fut, calls[c].out>>]]

\* disconnect() is entered with a transport and suspends in websocket.close().
\* (Without a transport it returns at once and changes nothing.)
\* discPc is "again" when the client was already as a disconnect() leaves it.
DisconnectBegin ==
    /\ discPc = "idle"
    /\ websocket # 0
    /\ discPc' = IF Obs = Disconnected(Obs) THEN "again" ELSE "closing"
    /\ sock' = CloseTransport(sock, websocket)
    /\ calls' = MarkOutstanding(calls, pending)
    /\ UNCHANGED <<websocket, connected, tools, message_id, pending, connPc,
                   listener>>

\* websocket.close() returned: self.connected = False.
DisconnectEnd ==
    /\ discPc # "idle"
    /\ discPc' = "idle"
    /\ connected' = AfterClose(connected)
    /\ UNCHANGED <<websocket, sock, tools, message_id, pending, calls, connPc,
                   listener>>

(* ------------------------------ transport ----------------------------- *)
\* The server or the network closes the transport.
TransportDrop(k) ==
    /\ sock[k] = "open"
    /\ sock' = [sock EXCEPT ![k] = "closed"]
    /\ UNCHANGED <<websocket, connected, tools, message_id, pending, calls,
                   connPc, discPc, listener>>

(* --------------------------- specifications --------------------------- *)
\* One client object, connected once.
Next ==
    \/ UNCHANGED <<avars, tvars>> /\ ConnectBegin(MaxCalls, FALSE)
    \/ UNCHANGED <<avars, tvars>> /\ ConnectRefused
    \/ UNCHANGED <<avars, tvars>> /\ ConnectOpened
    \/ UNCHANGED <<avars, tvars>> /\ CallTool(MaxCalls)
    \/ UNCHANGED <<avars, tvars>> /\ \E c \in CallIds : SendDone(c)
    \/ UNCHANGED <<avars, tvars>> /\ \E c \in CallIds : SendFail(c)
    \/ UNCHANGED <<avars, tvars>> /\ \E c \in CallIds : DeadlineExpires(c)
    \/ UNCHANGED <<avars, tvars>> /\ \E c \in CallIds : Resume(c)
    \/ UNCHANGED <<avars, tvars>> /\ \E k \in Socks : StartListener(k)
    \/ UNCHANGED <<avars, tvars>> /\ \E k \in Socks : \E f \in Frames(k) : HandleMessage(f)
    \/ UNCHANGED <<avars, tvars>> /\ \E k \in Socks : ListenerEnd(k)
    \/ UNCHANGED <<avars, tvars>> /\ DisconnectBegin
    \/ UNCHANGED <<avars, tvars>> /\ DisconnectEnd
    \/ UNCHANGED <<avars, tvars>> /\ \E k \in Socks : TransportDrop(k)

Spec == Init /\ [][Next]_allvars

\* One client object whose connect() may be called again; here the transport
\* is closed by disconnect() alone.
NextAgain ==
    \/ UNCHANGED <<avars, tvars>> /\ ConnectBegin(MaxCallsAgain, TRUE)
    \/ UNCHANGED <<avars, tvars>> /\ ConnectRefused
    \/ UNCHANGED <<avars, tvars>> /\ ConnectOpened
    \/ UNCHANGED <<avars, tvars>> /\ CallTool(MaxCallsAgain)
    \/ UNCHANGED <<avars, tvars>> /\ \E c \in CallIds : SendDone(c)
    \/ UNCHANGED <<avars, tvars>> /\ \E c \in CallIds : SendFail(c)
    \/ UNCHANGED <<avars, tvars>> /\ \E c \in CallIds : DeadlineExpires(c)
    \/ UNCHANGED <<avars, tvars>> /\ \E c \in CallIds : Resume(c)
    \/ UNCHANGED <<avars, tvars>> /\ \E k \in Socks : StartListener(k)
    \/ UNCHANGED <<avars, tvars>> /\ \E k \in Socks : \E f \in Frames(k) : HandleMessage(f)
    \/ UNCHANGED <<avars, tvars>> /\ \E k \in Socks : ListenerEnd(k)
    \/ UNCHANGED <<avars, tvars>> /\ DisconnectBegin
    \/ UNCHANGED <<avars, tvars>> /\ DisconnectEnd

SpecAgain == Init /\ [][NextAgain]_allvars

\* number of _send_request invocations on a client whose call_tool is also
\* tried while it is not connected
MaxCallsRefuse == 3

\* One client object, connected once, and call_tool at any time.
NextRefuse ==
    \/ UNCHANGED <<avars, tvars>> /\ ConnectBegin(MaxCallsRefuse, FALSE)
    \/ UNCHANGED <<avars, tvars>> /\ ConnectRefused
    \/ UNCHANGED <<avars, tvars>> /\ ConnectOpened
    \/ UNCHANGED <<avars, tvars>> /\ CallTool(MaxCallsRefuse)
    \/ UNCHANGED <<mcp_clients, conversation_history, turn, invoked, tvars>> /\ CallToolRefused
    \/ UNCHANGED <<avars, tvars>> /\ \E c \in CallIds : SendDone(c)
    \/ UNCHANGED <<avars, tvars>> /\ \E c \in CallIds : SendFail(c)
    \/ UNCHANGED <<avars, tvars>> /\ \E c \in CallIds : DeadlineExpires(c)
    \/ UNCHANGED <<avars, tvars>> /\ \E c \in CallIds : Resume(c)
    \/ UNCHANGED <<avars, tvars>> /\ \E k \in Socks : StartListener(k)
    \/ UNCHANGED <<avars, tvars>> /\ \E k \in Socks : \E f \in Frames(k) : HandleMessage(f)
    \/ UNCHANGED <<avars, tvars>> /\ \E k \in Socks : ListenerEnd(k)
    \/ UNCHANGED <<avars, tvars>> /\ DisconnectBegin
    \/ UNCHANGED <<avars, tvars>> /\ DisconnectEnd
    \/ UNCHANGED <<avars, tvars>> /\ \E k \in Socks : TransportDrop(k)

SpecRefuse == Init /\ [][NextRefuse]_allvars

(* ------------------------------- names -------------------------------- *)
\* A name (of a tool, of a server) is the sequence of its characters.
run_command == <<"r", "u", "n", "_", "c", "o", "m", "m", "a", "n", "d">>

read_file == <<"r", "e", "a", "d", "_", "f", "i", "l", "e">>

write_file == <<"w", "r", "i", "t", "e", "_", "f", "i", "l", "e">>

read_logs == <<"r", "e", "a", "d", "_", "l", "o", "g", "s">>

list_directory == <<"l", "i", "s", "t", "_", "d", "i", "r", "e", "c", "t", "o", "r", "y">>

\* BUILTIN_TOOLS.items(), in the order of the dict literal
BuiltinOrder == <<run_command, read_file, write_file, read_logs, list_directory>>

\* tool_name in BUILTIN_TOOLS
BUILTIN_TOOLS == {BuiltinOrder[i] : i \in DOMAIN BuiltinOrder}

\* s.startswith(p)
startswith(s, p) == Len(p) <= Len(s) /\ SubSeq(s, 1, Len(p)) = p

\* f"{server_name}."
Prefix(server_name) == server_name \o <<".">>

\* f"{server_name}.{tool.name}"
Qualified(server_name, tool_name) == Prefix(server_name) \o tool_name

\* tool_name[len(server_name) + 1:]
StripPrefix(tool_name, server_name) ==
    SubSeq(tool_name, Len(server_name) + 2, Len(tool_name))

\* The server names of the configuration: plain ones, and one that contains a
\* '.' and starts with another server's name.
ServerNames == {<<"a">>, <<"b">>, <<"a", ".", "b">>}

\* The tool catalogs a server can hand out in answer to tools/list: tool names
\* with and without a '.', a name listed twice, the name of a built-in tool.
Catalogs ==
    { <<>>,
      << <<"c">> >>,
      << <<"b", ".", "c">> >>,
      << <<"c">>, <<"c">> >>,
      << <<"c">>, run_command >> }

\* The names execute_tool is called with: a built-in tool, bare and qualified
\* names of catalog tools, a qualified name whose tool no catalog holds, and a
\* name nothing holds.
ExecNames ==
    { run_command, <<"c">>, <<"b", ".", "c">>,
      Qualified(<<"a">>, <<"c">>), Qualified(<<"a", ".", "b">>, <<"c">>),
      Qualified(<<"a">>, <<"x">>), <<"z">> }

\* Parsed arguments: a dict is the set of its items.
Arguments == { {}, {<<"command", "ls">>} }

(* ----------------------------- ToolExecutor --------------------------- *)
\* The servers of the registry, by position (dict insertion order).
Servers(reg) == 1..Len(reg)

\* the least element of a non-empty set of positions: the first hit of a for loop
First(S) == CHOOSE k \in S : \A j \in S : k <= j

\* client.get_tool(name): some tool of the catalog has that name
get_tool(catalog, name) == \E i \in 1..Len(catalog) : catalog[i] = name

\* One iteration of the loop of ToolExecutor.initialize for an enabled server
\* whose connect() returned True with the given catalog:
\* self.mcp_clients[server_name] = client.  (The loop runs over the items of a
\* dict, so no server name comes twice.)
InitializeServer(cap, server_name, catalog) ==
    /\ turn.pc = "idle"
    /\ Len(mcp_clients) < cap
    /\ \A k \in Servers(mcp_clients) : mcp_clients[k].name # server_name
    /\ mcp_clients' = Append(mcp_clients,
           [name |-> server_name, tools |-> catalog, connected |-> TRUE])
    /\ invoked' = <<>>
    /\ ret' = [op |-> "initialize"]
    /\ UNCHANGED <<conversation_history, turn>>

\* A parameter schema: the names under "properties" and the list "required".
Schema(properties, required) == [properties |-> properties, required |-> required]

\* get_schema() of the built-in tool: the schema it declares
get_schema(name) ==
    CASE name = run_command ->
            Schema({"command", "working_directory", "timeout"}, {"command"})
      [] name = read_file ->
            Schema({"file_path", "max_lines", "encoding"}, {"file_path"})
      [] name = write_file ->
            Schema({"file_path", "content", "create_directories", "append", "encoding"},
                   {"file_path", "content"})
      [] name = read_logs ->
            Schema({"file_path", "lines", "follow", "pattern"}, {"file_path"})
      [] name = list_directory ->
            Schema({"directory", "recursive", "show_hidden"}, {})

\* tool.input_schema of a tool a server listed
input_schema(tool) == Schema({"query"}, {"query"})

\* The entries list_tools makes of one server's catalog; tool is the bare name
\* the server listed (in the code the entry carries it inside name only).
McpEntries(client) ==
    [i \in 1..Len(client.tools) |->
        [name |-> Qualified(client.name, client.tools[i]), type |-> "mcp",
         server |-> client.name, tool |-> client.tools[i],
         schema |-> input_schema(client.tools[i])]]

RECURSIVE AllMcpEntries(_)
AllMcpEntries(reg) ==
    IF reg = <<>> THEN <<>>
    ELSE AllMcpEntries(SubSeq(reg, 1, Len(reg) - 1)) \o McpEntries(reg[Len(reg)])

\* ToolExecutor.list_tools(): the built-in tools, then every server's tools.
list_tools(reg) ==
    [i \in DOMAIN BuiltinOrder |->
        [name |-> BuiltinOrder[i], type |-> "builtin", server |-> <<>>,
         tool |-> BuiltinOrder[i], schema |-> get_schema(BuiltinOrder[i])]]
    \o AllMcpEntries(reg)

\* (variant: the bare-name lookup comes before the prefix lookup)
ResolveBareFirst(reg, tool_name) ==
    LET bare == {k \in Servers(reg) : get_tool(reg[k].tools, tool_name)}
        pre  == {k \in Servers(reg) : startswith(tool_name, Prefix(reg[k].name))}
    IN  IF tool_name \in BUILTIN_TOOLS
        THEN [rule |-> 1, server |-> 0, tool |-> tool_name]
        ELSE IF bare # {}
        THEN [rule |-> 3, server |-> First(bare), tool |-> tool_name]
        ELSE IF pre # {}
        THEN [rule |-> 2, server |-> First(pre),
              tool |-> StripPrefix(tool_name, reg[First(pre)].name)]
        ELSE [rule |-> 0, server |-> 0, tool |-> tool_name]

\* The lookup of execute_tool: which rule resolves tool_name (0: none), the
\* position of the client it picks and the tool name it passes on.
Resolve(reg, tool_name) ==
    LET pre  == {k \in Servers(reg) : startswith(tool_name, Prefix(reg[k].name))}
        bare == {k \in Servers(reg) : get_tool(reg[k].tools, tool_name)}
    IN  IF tool_name \in BUILTIN_TOOLS
        THEN [rule |-> 1, server |-> 0, tool |-> tool_name]
        ELSE IF pre # {}
        THEN [rule |-> 2, server |-> First(pre),
              tool |-> StripPrefix(tool_name, reg[First(pre)].name)]
        ELSE IF bare # {}
        THEN [rule |-> 3, server |-> First(bare), tool |-> tool_name]
        ELSE [rule |-> 0, server |-> 0, tool |-> tool_name]

\* How the handler or the remote call that execute_tool reaches can end:
\* a built-in handler returns a dict with success true ("ok") or false
\* ("failed"), or raises (a KeyError for a missing argument); call_tool on a
\* connected client ends as its _send_request does, and raises RuntimeError at
\* once on a client that is not connected.
Fates(reg, r) ==
    CASE r.rule = 1 -> {"ok", "failed", "raise"}
      [] r.rule \in {2, 3} /\ reg[r.server].connected -> {"result", "error", "timeout", "closed"}
      [] r.rule \in {2, 3} /\ ~reg[r.server].connected -> {"notconnected"}
      [] OTHER -> {"notfound"}

\* The handler and call_tool invocations execute_tool makes; sent tells
\* whether a request went out to the server.
Invocations(reg, r, arguments) ==
    CASE r.rule = 1 ->
            << [target |-> "builtin", server |-> <<>>, tool |-> r.tool,
                arguments |-> arguments, sent |-> FALSE] >>
      [] r.rule \in {2, 3} ->
            << [target |-> "mcp", server |-> reg[r.server].name, tool |-> r.tool,
                arguments |-> arguments, sent |-> reg[r.server].connected] >>
      [] OTHER -> <<>>

\* What execute_tool(tool_name, arguments) gives its caller when the
\* invocation it makes ends with fate: a value it returns or an exception it
\* raises; text is the name the exception's message carries.
Executed(tool_name, arguments, fate) ==
    CASE fate = "ok" ->
            [raised |-> FALSE, value |-> "success", exc |-> "", text |-> <<>>]
      [] fate = "failed" ->
            [raised |-> FALSE, value |-> "failure", exc |-> "", text |-> <<>>]
      [] fate = "result" ->
            [raised |-> FALSE, value |-> "remote", exc |-> "", text |-> <<>>]
      [] fate = "raise" ->
            [raised |-> TRUE, value |-> "", exc |-> "KeyError", text |-> <<>>]
      [] fate = "error" ->
            [raised |-> TRUE, value |-> "", exc |-> "Exception", text |-> <<>>]
      [] fate = "timeout" ->
            [raised |-> TRUE, value |-> "", exc |-> "TimeoutError", text |-> <<>>]
      [] fate = "closed" ->
            [raised |-> TRUE, value |-> "", exc |-> "ConnectionClosed", text |-> <<>>]
      [] fate = "notconnected" ->
            [raised |-> TRUE, value |-> "", exc |-> "RuntimeError", text |-> <<>>]
      [] fate = "notfound" ->
            [raised |-> TRUE, value |-> "", exc |-> "ValueError", text |-> tool_name]

\* ToolExecutor.execute_tool(tool_name, arguments), called from outside a turn.
ExecuteTool(tool_name, arguments) ==
    /\ turn.pc = "idle"
    /\ \E fate \in Fates(mcp_clients, Resolve(mcp_clients, tool_name)) :
        /\ invoked' = Invocations(mcp_clients, Resolve(mcp_clients, tool_name), arguments)
        /\ ret' = [op |-> "execute_tool", tool_name |-> tool_name,
                   arguments |-> arguments,
                   out |-> Executed(tool_name, arguments, fate)]
    /\ UNCHANGED <<mcp_clients, conversation_history, turn>>

\* ToolExecutor.list_tools(), called from outside a turn.
ListTools ==
    /\ turn.pc = "idle"
    /\ invoked' = <<>>
    /\ ret' = [op |-> "list_tools", value |-> list_tools(mcp_clients)]
    /\ UNCHANGED <<mcp_clients, conversation_history, turn>>

\* TerminalAgent.cleanup(): disconnect() of every client of the registry.
Cleanup ==
    /\ turn.pc = "idle"
    /\ mcp_clients' = [k \in Servers(mcp_clients) |->
                          [mcp_clients[k] EXCEPT !.connected = AfterClose(@)]]
    /\ invoked' = <<>>
    /\ ret' = [op |-> "cleanup"]
    /\ UNCHANGED <<conversation_history, turn>>

\* number of servers in the registry, and in the configuration
MaxServers == 2

\* What the configuration says of one server and what its connect() does: it
\* returns True having loaded the catalog <<c>> ("connected"), returns False
\* ("refused"), or an exception leaves the try block ("raises").
ServerConfigs ==
    [name : ServerNames, enabled : BOOLEAN, fate : {"connected", "refused", "raises"}]

\* config["mcp_servers"]: a dict, so no name comes twice
Configs ==
    {c \in UNION {[1..n -> ServerConfigs] : n \in 0..MaxServers} :
        \A i, j \in 1..Len(c) : i # j => c[i].name # c[j].name}

\* (variant: the enabled flag is not looked at)
IterationContactsDisabled(state, s) ==
    [mcp_clients |-> IF s.fate = "connected"
                     THEN Append(state.mcp_clients,
                              [name |-> s.name, tools |-> << <<"c">> >>, connected |-> TRUE])
                     ELSE state.mcp_clients,
     attempts |-> Append(state.attempts, s.name)]

\* One iteration of the loop of ToolExecutor.initialize: a disabled server is
\* passed over; for an enabled one connect() is awaited, and the client is
\* registered when it returned True.
Iteration(state, s) ==
    IF ~s.enabled THEN state
    ELSE [mcp_clients |-> IF s.fate = "connected"
                          THEN Append(state.mcp_clients,
                                   [name |-> s.name, tools |-> << <<"c">> >>,
                                    connected |-> TRUE])
                          ELSE state.mcp_clients,
          attempts |-> Append(state.attempts, s.name)]

\* The loop of ToolExecutor.initialize over the servers of the configuration.
RECURSIVE initialize(_, _)
initialize(state, config) ==
    IF config = <<>> THEN state
    ELSE initialize(Iteration(state, Head(config)), Tail(config))

\* ToolExecutor.initialize() on a new ToolExecutor, from its first statement
\* to its return; invoked logs the connect() calls.
Initialize(config) ==
    /\ turn.pc = "idle"
    /\ ret.op = "none"
    /\ LET end == initialize([mcp_clients |-> mcp_clients, attempts |-> <<>>], config)
       IN  /\ mcp_clients' = end.mcp_clients
           /\ invoked' = [i \in 1..Len(end.attempts) |->
                              [target |-> "connect", server |-> end.attempts[i]]]
    /\ ret' = [op |-> "ToolExecutor.initialize", config |-> config, raised |-> FALSE]
    /\ UNCHANGED <<conversation_history, turn>>

\* A ToolExecutor that is initialized from a configuration and then used.
NextInit ==
    \/ UNCHANGED <<vars, tvars>> /\ \E c \in Configs : Initialize(c)
    \/ UNCHANGED <<vars, tvars>> /\ \E n \in ExecNames : \E a \in Arguments : ExecuteTool(n, a)
    \/ UNCHANGED <<vars, tvars>> /\ ListTools

SpecInit == Init /\ [][NextInit]_allvars

\* A ToolExecutor and the operations on it.
NextDispatch ==
    \/ UNCHANGED <<vars, tvars>> /\ \E n \in ServerNames : \E t \in Catalogs :
                             InitializeServer(MaxServers, n, t)
    \/ UNCHANGED <<vars, tvars>> /\ \E n \in ExecNames : \E a \in Arguments : ExecuteTool(n, a)
    \/ UNCHANGED <<vars, tvars>> /\ ListTools
    \/ UNCHANGED <<vars, tvars>> /\ Cleanup

SpecDispatch == Init /\ [][NextDispatch]_allvars

(* --------------------------- built-in tools --------------------------- *)
\* Texts (commands, paths, file contents, captured output) are sequences of
\* characters.  Messages of results (the "error" entries) are sequences of
\* words: the blanks between the words are left out.

\* the white space str.strip() and str.rstrip() remove
Blank == {" ", "\n"}

\* str.rstrip()
RECURSIVE rstrip(_)
rstrip(s) ==
    IF s # <<>> /\ s[Len(s)] \in Blank THEN rstrip(SubSeq(s, 1, Len(s) - 1)) ELSE s

\* str.lstrip(), the other half of str.strip()
RECURSIVE lstrip(_)
lstrip(s) ==
    IF s # <<>> /\ s[1] \in Blank THEN lstrip(SubSeq(s, 2, Len(s))) ELSE s

\* str.strip()
strip(s) == rstrip(lstrip(s))

\* s[n:]
From(s, n) == SubSeq(s, n + 1, Len(s))

\* f.readlines(): the lines of a text, each with the newline that ends it
RECURSIVE readlines(_)
readlines(s) ==
    IF s = <<>> THEN <<>>
    ELSE LET nl == {i \in 1..Len(s) : s[i] = "\n"}
         IN  IF nl = {} THEN <<s>>
             ELSE << SubSeq(s, 1, First(nl)) >> \o readlines(From(s, First(nl)))

\* "\n".join(lines)
RECURSIVE join(_)
join(lines) ==
    IF lines = <<>> THEN <<>>
    ELSE IF Len(lines) = 1 THEN lines[1]
    ELSE lines[1] \o <<"\n">> \o join(Tail(lines))

\* arguments.get(key, default)
Get(arguments, key, default) ==
    IF key \in DOMAIN arguments THEN arguments[key] ELSE default

\* arguments[key] of a dict without that key
KeyError == [raised |-> TRUE, exc |-> "KeyError"]

\* a handler returned the dict value
Returned(value) == [raised |-> FALSE, value |-> value]

\* The commands of the shell, and what the shell does with each: the exit
\* code, what it prints, and the seconds it runs.
echo_hi == <<"e", "c", "h", "o", " ", "h", "i">>

cmd_false == <<"f", "a", "l", "s", "e">>

sleep_2 == <<"s", "l", "e", "e", "p", " ", "2">>

Commands == {echo_hi, cmd_false, sleep_2}

\* process.communicate() and process.returncode of the command
Process(command) ==
    CASE command = echo_hi ->
            [returncode |-> 0, stdout |-> <<"h", "i", "\n">>, stderr |-> <<>>, seconds |-> 0]
      [] command = cmd_false ->
            [returncode |-> 1, stdout |-> <<>>, stderr |-> <<>>, seconds |-> 0]
      [] command = sleep_2 ->
            [returncode |-> 0, stdout |-> <<>>, stderr |-> <<>>, seconds |-> 2]
      [] OTHER ->
            [returncode |-> 127, stdout |-> <<>>,
             stderr |-> <<"n", "o", "t", " ", "f", "o", "u", "n", "d", "\n">>, seconds |-> 0]

\* asyncio.create_subprocess_shell(command, ..., text=text): the event loop
\* refuses text mode, raise ValueError("text must be False"); otherwise the
\* process is started.
create_subprocess_shell(command, text) ==
    IF text
    THEN [raised |-> TRUE, message |-> <<"text", "must", "be", "False">>]
    ELSE [raised |-> FALSE, process |-> Process(command)]

\* CommandRunner.execute(arguments).  The subprocess is created with
\* text=True.
CommandRunner_execute(arguments) ==
    IF "command" \notin DOMAIN arguments THEN KeyError
    ELSE LET command == arguments["command"]
             timeout == Get(arguments, "timeout", 30)
             created == create_subprocess_shell(command, TRUE)
         IN  IF created.raised
             THEN Returned([success |-> FALSE, error |-> created.message,
                            command |-> command])
             ELSE IF created.process.seconds > timeout
             THEN Returned([success |-> FALSE,
                            error |-> <<"Command", "timed", "out", "after",
                                        ToString(timeout), "seconds">>,
                            command |-> command])
             ELSE Returned([success |-> created.process.returncode = 0,
                            return_code |-> created.process.returncode,
                            stdout |-> created.process.stdout,
                            stderr |-> created.process.stderr,
                            command |-> command])

\* the line FileReader puts in place of the lines beyond max_lines
Truncated(max_lines) ==
    <<".", ".", ".", " ", "(", "t", "r", "u", "n", "c", "a", "t", "e", "d", " ",
      "a", "t", " ", ToString(max_lines), " ", "l", "i", "n", "e", "s", ")">>

\* The loop of FileReader.execute over the lines of the file.
ReadLines(text, max_lines) ==
    LET L == readlines(text)
    IN  IF Len(L) > max_lines
        THEN [i \in 1..(max_lines + 1) |->
                 IF i <= max_lines THEN rstrip(L[i]) ELSE Truncated(max_lines)]
        ELSE [i \in 1..Len(L) |-> rstrip(L[i])]

\* FileReader.execute(arguments) on the file system fs.  Every path of fs is
\* a regular file that can be read.
FileReader_execute(fs, arguments) ==
    IF "file_path" \notin DOMAIN arguments THEN KeyError
    ELSE LET file_path == arguments["file_path"]
             max_lines == Get(arguments, "max_lines", 1000)
         IN  IF file_path \notin DOMAIN fs
             THEN Returned([success |-> FALSE, error |-> <<"File", "not", "found:">>])
             ELSE Returned([success |-> TRUE,
                            content |-> join(ReadLines(fs[file_path], max_lines)),
                            file_path |-> file_path,
                            lines |-> Len(ReadLines(fs[file_path], max_lines)),
                            size |-> Len(fs[file_path])])

\* The file system after f.write(content) on a file opened in mode 'w' or 'a'.
Written(fs, file_path, content, append) ==
    [p \in DOMAIN fs \cup {file_path} |->
        IF p # file_path THEN fs[p]
        ELSE IF append /\ p \in DOMAIN fs THEN fs[p] \o content
        ELSE content]

\* FileWriter.execute(arguments) on the file system fs: what it returns, and
\* the file system it leaves.  Every path can be written.
FileWriter_execute(fs, arguments) ==
    IF {"file_path", "content"} \subseteq DOMAIN arguments
    THEN LET after == Written(fs, arguments["file_path"], arguments["content"],
                              Get(arguments, "append", FALSE))
         IN  [out |-> Returned([success |-> TRUE,
                                file_path |-> arguments["file_path"],
                                size |-> Len(after[arguments["file_path"]]),
                                mode |-> IF Get(arguments, "append", FALSE)
                                         THEN "append" ELSE "write"]),
              files |-> after]
    ELSE [out |-> KeyError, files |-> fs]

\* length of the texts written to files
MaxText == 2

\* the characters of those texts
Chars == {"a", " ", "\n"}

Texts == UNION {[1..n -> Chars] : n \in 0..MaxText}

Paths == {<<"f">>}

\* The argument dicts the handlers are called with.
WriterArguments ==
    [file_path : Paths, content : Texts] \cup [file_path : Paths, content : Texts, append : {TRUE}]

ReaderArguments == [file_path : Paths] \cup [file_path : Paths, max_lines : {1}]

RunnerArguments == [command : Commands] \cup [command : Commands, timeout : {1}]

\* BUILTIN_TOOLS["write_file"]["execute"](arguments), called directly; files
\* grow to MaxText characters
WriteFile(arguments) ==
    /\ turn.pc = "idle"
    /\ \A p \in DOMAIN FileWriter_execute(files, arguments).files :
           Len(FileWriter_execute(files, arguments).files[p]) <= MaxText
    /\ files' = FileWriter_execute(files, arguments).files
    /\ ret' = [op |-> "write_file", arguments |-> arguments,
               out |-> FileWriter_execute(files, arguments).out]
    /\ invoked' = <<>>
    /\ UNCHANGED <<mcp_clients, conversation_history, turn>>

\* BUILTIN_TOOLS["read_file"]["execute"](arguments), called directly
ReadFile(arguments) ==
    /\ turn.pc = "idle"
    /\ ret' = [op |-> "read_file", arguments |-> arguments,
               out |-> FileReader_execute(files, arguments)]
    /\ invoked' = <<>>
    /\ UNCHANGED <<mcp_clients, conversation_history, turn, files>>

\* BUILTIN_TOOLS["run_command"]["execute"](arguments), called directly
RunCommand(arguments) ==
    /\ turn.pc = "idle"
    /\ ret' = [op |-> "run_command", arguments |-> arguments,
               out |-> CommandRunner_execute(arguments)]
    /\ invoked' = <<>>
    /\ UNCHANGED <<mcp_clients, conversation_history, turn, files>>

(* ----------------------------- TerminalAgent -------------------------- *)
\* number of process_message calls on one agent
MaxTurns == 2

\* number of tool calls the model requests, all turns of one agent together
MaxToolCalls == 2

\* The user messages of a chat with the model.
Messages == {<<"h", "i">>}

\* self.system_prompt
system_prompt == <<"You are DeepinTermAgent">>

\* The argument payloads of a tool call, as the model service sends them: the
\* text of a JSON object, and a text that is not JSON.
Payloads == {"{}", "{\"command\": \"ls\"}", "{\"command\": "}

\* json.loads(text): the parsed value, or the exception it raises
json_loads(text) ==
    CASE text = "{}" -> [raised |-> FALSE, value |-> {}]
      [] text = "{\"command\": \"ls\"}" -> [raised |-> FALSE, value |-> {<<"command", "ls">>}]
      [] OTHER -> [raised |-> TRUE, value |-> {}]

\* The tool names the model asks for: a built-in tool, a remote tool by its
\* qualified name, and a name that no catalog holds.
AskedNames == {run_command, Qualified(<<"a">>, <<"c">>), <<"z">>}

\* The tool-call lists of at most n calls.
ToolCallLists(n) ==
    UNION {[1..k -> [name : AskedNames, arguments : Payloads]] : k \in 0..n}

\* What generate_response can give: an exception (a transport error), a dict
\* that lacks what the code reads from it (no choices), or a message with
\* content (possibly empty) and at most n tool calls.
Responses(n) ==
    {[kind |-> k, content |-> "", tool_calls |-> <<>>] : k \in {"raise", "malformed"}}
    \cup [kind : {"message"}, content : {"", "Let me look."}, tool_calls : ToolCallLists(n)]

NoResponse == [kind |-> "none", content |-> "", tool_calls |-> <<>>]

\* (variant: at the end of a turn the model is called again)
IdleAsksAgain(n) ==
    [pc |-> "llm", message |-> <<>>, request |-> <<>>, response |-> NoResponse,
     i |-> 0, results |-> <<>>, ncalls |-> n, tools |-> <<>>]

\* The process_message coroutine at rest; ncalls counts the tool calls the
\* model has requested so far.
Idle(n) ==
    [pc |-> "idle", message |-> <<>>, request |-> <<>>, response |-> NoResponse,
     i |-> 0, results |-> <<>>, ncalls |-> n, tools |-> <<>>]

\* One part of a reply; the parts are joined by blank lines.
\*   kind "text"       the model's content, or the stock sentence for none
\*        "formatted"  the output of the formatter of a built-in tool
\*        "executed"   "Tool '<tool>' executed successfully: ..."
\*        "error"      "Error executing <tool>: <message>"
\*        "apology"    "I encountered an error processing your request: ..."
Part(kind, tool, detail) == [kind |-> kind, tool |-> tool, detail |-> detail]

\* The entry of results for a tool call whose execute_tool ended with out.
Formatted(tool_name, out) ==
    IF out.raised THEN Part("error", tool_name, out.exc)
    ELSE IF tool_name \in BUILTIN_TOOLS THEN Part("formatted", <<>>, out.value)
    ELSE Part("executed", tool_name, out.value)

Apology == << Part("apology", <<>>, "") >>

\* (variant: the whole history is sent to the model)
recent_history_whole(h) == h

\* (variant: no earlier turn is sent to the model)
recent_history_none(h) == <<>>

\* self.conversation_history[-10:-1] if len(self.conversation_history) > 1 else []
recent_history(h) ==
    IF Len(h) > 1
    THEN SubSeq(h, IF Len(h) > 10 THEN Len(h) - 9 ELSE 1, Len(h) - 1)
    ELSE <<>>

\* What _handle_llm_command appends to llm_tools for one entry of the
\* catalog: for a built-in tool the function it writes out for that name, for
\* a remote tool the entry's name and schema.
Offered(tool) ==
    IF tool.type = "builtin"
    THEN CASE tool.name = run_command ->
                << [name |-> run_command,
                    parameters |-> Schema({"command"}, {"command"})] >>
           [] tool.name = read_file ->
                << [name |-> read_file,
                    parameters |-> Schema({"file_path"}, {"file_path"})] >>
           [] tool.name = write_file ->
                << [name |-> write_file,
                    parameters |-> Schema({"file_path", "content"},
                                          {"file_path", "content"})] >>
           [] tool.name = list_directory ->
                << [name |-> list_directory,
                    parameters |-> Schema({"directory"}, {"directory"})] >>
           [] tool.name = read_logs ->
                << [name |-> read_logs,
                    parameters |-> Schema({"file_path", "lines", "filter"},
                                          {"file_path"})] >>
           [] OTHER -> <<>>
    ELSE IF tool.type = "mcp"
    THEN << [name |-> tool.name, parameters |-> tool.schema] >>
    ELSE <<>>

\* llm_tools, as the loop over list_tools() builds it
RECURSIVE llm_tools(_)
llm_tools(catalog) ==
    IF catalog = <<>> THEN <<>>
    ELSE llm_tools(SubSeq(catalog, 1, Len(catalog) - 1)) \o Offered(catalog[Len(catalog)])

\* The messages generate_response(user_message, system_prompt, tools,
\* conversation_history) sends to the model.
generate_response(user_message, prompt, history) ==
    << [role |-> "system", content |-> prompt] >>
    \o history
    \o << [role |-> "user", content |-> user_message] >>

\* process_message(message) is entered, for at most the cap-th time: the user
\* turn is recorded.  With a model client the request is built and the
\* coroutine suspends in generate_response; without one it goes on in
\* _handle_simple_command.
ProcessMessage(cap, message) ==
    /\ turn.pc = "idle"
    /\ Len(conversation_history) < 2 * cap
    /\ conversation_history' =
           Append(conversation_history, [role |-> "user", content |-> message])
    /\ turn' = IF llm_client
               THEN [turn EXCEPT !.pc = "llm", !.message = message,
                        !.tools = llm_tools(list_tools(mcp_clients)),
                        !.request = generate_response(message, system_prompt,
                                        recent_history(conversation_history'))]
               ELSE [turn EXCEPT !.pc = "simple", !.message = message]
    /\ invoked' = <<>>
    /\ ret' = [op |-> "process_message", done |-> FALSE, raised |-> FALSE, reply |-> <<>>]
    /\ UNCHANGED mcp_clients

\* (variant: the reply is returned and not recorded)
ReturnUnrecorded(reply) ==
    /\ UNCHANGED conversation_history
    /\ turn' = Idle(turn.ncalls)
    /\ ret' = [op |-> "process_message", done |-> TRUE, raised |-> FALSE, reply |-> reply]

\* The handler of the turn returned reply: process_message records it and returns it.
Return(reply) ==
    /\ conversation_history' =
           Append(conversation_history, [role |-> "assistant", content |-> reply])
    /\ turn' = Idle(turn.ncalls)
    /\ ret' = [op |-> "process_message", done |-> TRUE, raised |-> FALSE, reply |-> reply]

\* TerminalAgent.initialize() found an API key: self.llm_client = MoonshotClient(...).
\* It runs before the first message.
InitializeLlm ==
    /\ turn.pc = "idle"
    /\ conversation_history = <<>>
    /\ ~llm_client
    /\ llm_client' = TRUE

\* message.split("\n", 1)
split_once(s) ==
    LET nl == {i \in 1..Len(s) : s[i] = "\n"}
    IN  IF nl = {} THEN <<s>>
        ELSE << SubSeq(s, 1, First(nl) - 1), From(s, First(nl)) >>

\* The branch _handle_simple_command takes for a message: the tool it
\* executes and the arguments it passes, the usage line, or the help text.
simple_command(message) ==
    LET m == strip(message)
    IN  CASE startswith(m, <<"r", "u", "n", " ">>) ->
                [kind |-> "tool", tool |-> run_command,
                 arguments |-> [command |-> strip(From(m, 4))]]
          [] startswith(m, <<"r", "e", "a", "d", " ">>) ->
                [kind |-> "tool", tool |-> read_file,
                 arguments |-> [file_path |-> strip(From(m, 5))]]
          [] startswith(m, <<"w", "r", "i", "t", "e", " ">>) ->
                IF Len(split_once(From(m, 6))) # 2
                THEN [kind |-> "usage", tool |-> <<>>, arguments |-> <<>>]
                ELSE [kind |-> "tool", tool |-> write_file,
                      arguments |-> [file_path |-> strip(split_once(From(m, 6))[1]),
                                     content |-> split_once(From(m, 6))[2]]]
          [] startswith(m, <<"l", "s">>) ->
                [kind |-> "tool", tool |-> list_directory,
                 arguments |-> [directory |-> IF strip(From(m, 2)) = <<>> THEN <<".">>
                                              ELSE strip(From(m, 2))]]
          [] startswith(m, <<"l", "o", "g", "s", " ">>) ->
                [kind |-> "tool", tool |-> read_logs,
                 arguments |-> [file_path |-> strip(From(m, 5)), lines |-> 50]]
          [] OTHER -> [kind |-> "help", tool |-> <<>>, arguments |-> <<>>]

\* _format_command_result(result, command)
\*   kind "completed"  "Command completed (exit code: <return_code>)" and the
\*                     captured output
\*        "failed"     "Command failed: <error>"
format_command_result(result) ==
    IF result.success
    THEN Part("completed", <<>>, [return_code |-> result.return_code,
                                 stdout |-> result.stdout, stderr |-> result.stderr])
    ELSE Part("failed", <<>>, Get(result, "error", <<"Unknown", "error">>))

\* _format_file_result(result, file_path)
format_file_result(result) ==
    IF result.success
    THEN Part("file", <<>>, [file_path |-> result.file_path, size |-> result.size,
                            content |-> result.content])
    ELSE Part("failed", <<>>, Get(result, "error", <<"Unknown", "error">>))

\* _format_write_result(result, file_path)
format_write_result(result) ==
    IF result.success
    THEN Part("wrote", <<>>, [file_path |-> result.file_path, size |-> result.size])
    ELSE Part("failed", <<>>, Get(result, "error", <<"Unknown", "error">>))

\* What the built-in handler of tool does with arguments on the file system
\* fs: how it ends, and the file system it leaves.  The handlers of read_logs
\* and list_directory end with success true or false.
Handled(fs, tool, arguments) ==
    CASE tool = run_command ->
            {[out |-> CommandRunner_execute(arguments), files |-> fs]}
      [] tool = read_file ->
            {[out |-> FileReader_execute(fs, arguments), files |-> fs]}
      [] tool = write_file ->
            {FileWriter_execute(fs, arguments)}
      [] OTHER ->
            {[out |-> Returned([success |-> s]), files |-> fs] : s \in BOOLEAN}

\* The reply _handle_simple_command makes of the dict the handler returned.
SimpleReply(tool, result) ==
    CASE tool = run_command -> << format_command_result(result) >>
      [] tool = read_file -> << format_file_result(result) >>
      [] tool = write_file -> << format_write_result(result) >>
      [] OTHER -> << Part("formatted", tool, IF result.success THEN "success" ELSE "failure") >>

\* _handle_simple_command(message), on an agent without a model client: the
\* tool of the message's branch is executed through execute_tool and its
\* result formatted; process_message records the reply and returns it.  An
\* exception of the handler leaves process_message.
SimpleCommand ==
    /\ turn.pc = "simple"
    /\ LET c == simple_command(turn.message)
       IN  CASE c.kind = "help" ->
                    /\ Return(<< Part("help", <<>>, list_tools(mcp_clients)) >>)
                    /\ UNCHANGED <<invoked, files>>
             [] c.kind = "usage" ->
                    /\ Return(<< Part("usage", <<>>, "") >>)
                    /\ UNCHANGED <<invoked, files>>
             [] OTHER ->
                    \E h \in Handled(files, c.tool, c.arguments) :
                        /\ invoked' = invoked \o Invocations(mcp_clients,
                                          Resolve(mcp_clients, c.tool), c.arguments)
                        /\ files' = h.files
                        /\ IF h.out.raised
                           THEN /\ turn' = Idle(turn.ncalls)
                                /\ ret' = [op |-> "process_message", done |-> TRUE,
                                           raised |-> TRUE, reply |-> <<>>]
                                /\ UNCHANGED conversation_history
                           ELSE Return(SimpleReply(c.tool, h.out.value))
    /\ UNCHANGED mcp_clients

\* generate_response ended.  An exception, and a response the code cannot
\* read, end in the outer except clause: the apology.  A message without tool
\* calls is the reply.  A message with tool calls starts the loop over them.
ModelResponds(r) ==
    /\ turn.pc = "llm"
    /\ CASE r.kind \in {"raise", "malformed"} ->
                /\ Return(Apology)
                /\ UNCHANGED invoked
         [] r.kind = "message" /\ r.tool_calls = <<>> ->
                /\ Return(<< Part("text", <<>>, r.content) >>)
                /\ UNCHANGED invoked
         [] OTHER ->
                /\ turn' = [turn EXCEPT !.pc = "tools", !.response = r, !.i = 1,
                               !.ncalls = @ + Len(r.tool_calls)]
                /\ UNCHANGED <<conversation_history, invoked, ret>>
    /\ UNCHANGED mcp_clients

\* The reply made of the model's content and the results.
Combined(content, results) ==
    IF content # "" THEN << Part("text", <<>>, content) >> \o results ELSE results

\* One round of the loop over tool_calls: the arguments are parsed, the tool is
\* executed and its result formatted.  json.loads stands outside the inner
\* try: its exception ends the turn in the outer except clause.  After the
\* last round the results are combined into the reply.
ToolCallStep ==
    /\ turn.pc = "tools"
    /\ LET tc   == turn.response.tool_calls[turn.i]
           args == json_loads(tc.arguments)
           r    == Resolve(mcp_clients, tc.name)
       IN  IF args.raised
           THEN /\ Return(Apology)
                /\ UNCHANGED invoked
           ELSE \E fate \in Fates(mcp_clients, r) :
                  LET res == Append(turn.results,
                                 Formatted(tc.name, Executed(tc.name, args.value, fate)))
                  IN  /\ invoked' = invoked \o Invocations(mcp_clients, r, args.value)
                      /\ IF turn.i = Len(turn.response.tool_calls)
                         THEN Return(Combined(turn.response.content, res))
                         ELSE /\ turn' = [turn EXCEPT !.i = @ + 1, !.results = res]
                              /\ UNCHANGED <<conversation_history, ret>>
    /\ UNCHANGED mcp_clients

\* A TerminalAgent, with a model client once initialize() has made one, and
\* at most one server named "a" that lists the tool "c".
NextTurn ==
    \/ UNCHANGED <<vars, tvars>> /\ InitializeServer(MaxServers, <<"a">>, << <<"c">> >>)
    \/ UNCHANGED <<vars, avars, files>> /\ InitializeLlm
    \/ UNCHANGED <<vars, tvars>> /\ \E m \in Messages : ProcessMessage(MaxTurns, m)
    \/ UNCHANGED <<vars, llm_client>> /\ SimpleCommand
    \/ UNCHANGED <<vars, tvars>> /\ \E r \in Responses(MaxToolCalls - turn.ncalls) : ModelResponds(r)
    \/ UNCHANGED <<vars, tvars>> /\ ToolCallStep
    \/ UNCHANGED <<vars, tvars>> /\ Cleanup

SpecTurn == Init /\ [][NextTurn]_allvars

\* number of process_message calls of a long conversation
MaxWindowTurns == 6

\* A long conversation in which the model asks for no tool.
NextWindow ==
    \/ UNCHANGED <<vars, avars, files>> /\ InitializeLlm
    \/ UNCHANGED <<vars, tvars>> /\ \E m \in Messages : ProcessMessage(MaxWindowTurns, m)
    \/ UNCHANGED <<vars, llm_client>> /\ SimpleCommand
    \/ UNCHANGED <<vars, tvars>> /\ \E r \in Responses(0) : ModelResponds(r)

SpecWindow == Init /\ [][NextWindow]_allvars

\* The messages typed to an agent without a model client.
SimpleMessages ==
    { <<"r", "u", "n", " ">> \o echo_hi,
      <<" ", "r", "u", "n", " ", " ">> \o sleep_2 \o <<"\n">>,
      <<"r", "u", "n", " ">> \o cmd_false,
      <<"r", "e", "a", "d", " ", "f">>,
      <<"w", "r", "i", "t", "e", " ", "f", "\n", "a", " ">>,
      <<"w", "r", "i", "t", "e", " ", "f">>,
      <<"l", "s">>,
      <<"h", "i">> }

\* number of process_message calls on an agent without a model client
MaxSimpleTurns == 1

\* The built-in tools called directly, and an agent without a model client
\* and without servers.
NextTools ==
    \/ UNCHANGED <<vars, llm_client>> /\ \E a \in WriterArguments : WriteFile(a)
    \/ UNCHANGED <<vars, llm_client>> /\ \E a \in ReaderArguments : ReadFile(a)
    \/ UNCHANGED <<vars, llm_client>> /\ \E a \in RunnerArguments : RunCommand(a)
    \/ UNCHANGED <<vars, tvars>> /\ \E m \in SimpleMessages : ProcessMessage(MaxSimpleTurns, m)
    \/ UNCHANGED <<vars, llm_client>> /\ SimpleCommand

SpecTools == Init /\ [][NextTools]_allvars

(* ------------------------------- claims ------------------------------- *)
\* int(id): the number an id string is the decimal form of
IdNum(i) == IF \E n \in 0..message_id : str(n) = i
            THEN CHOOSE n \in 0..message_id : str(n) = i
            ELSE -1

\* C1: every call is completed only by a frame whose id is its own request id:
\* a call that returned a result or raised a server error got it from the
\* frame with its id, whatever calls were outstanding and in whatever order
\* the frames arrived.
C1_ResponseMatchedById ==
    \A c \in CallIds :
        /\ calls[c].got # NoFrame => calls[c].got.id = calls[c].id
        /\ calls[c].out = "result" =>
               calls[c].got.id = calls[c].id
               /\ calls[c].got.body \in {"plain", "tools", "badtools"}
        /\ calls[c].out = "error" =>
               calls[c].got.id = calls[c].id /\ calls[c].got.body = "error"

\* Two call_tool requests outstanding together, the later one answered first.
C1_Witness ==
    \E c, d \in CallIds :
        /\ c < d
        /\ calls[c].owner = "call_tool" /\ calls[d].owner = "call_tool"
        /\ calls[c].pc = "wait" /\ calls[c].fut = "pending"
        /\ calls[d].out = "result"

\* C2: every call outstanding when disconnect() closes the transport ends with
\* a ConnectionClosed error, never by its own timeout or otherwise.
C2_DisconnectFailsOutstanding ==
    \A c \in CallIds :
        calls[c].atDisc /\ calls[c].pc = "done" => calls[c].out = "closed"

\* C3: a call whose deadline passes without a response raises Timeout, its id
\* is not in the pending table afterwards, and a frame with that id completes
\* neither it nor any other call.
C3_TimeoutRemovesId ==
    \A c \in CallIds :
        /\ calls[c].pc = "done" /\ calls[c].fut = "cancelled" => calls[c].out = "timeout"
        /\ calls[c].out = "timeout" =>
               /\ calls[c].id \notin DOMAIN pending
               /\ calls[c].got = NoFrame
               /\ \A d \in CallIds \ {c} : calls[d].got.id # calls[c].id

\* A call timed out, a frame with its id was handled afterwards, and a later
\* call was completed by its own response.
C3_Witness ==
    \E c, d \in CallIds :
        /\ c < d
        /\ calls[c].out = "timeout" /\ calls[c].late
        /\ calls[d].out = "result"

\* C4: while a transport that connect() established is open, a listener is
\* reading it.
C4_ListenerReadsWhileOpen ==
    \A k \in Socks : sock[k] = "open" => listener[k] = "running"

\* C5 as stated: the pending table holds exactly the ids of the calls that
\* have not returned or raised yet.
C5_PendingIsSuspended ==
    DOMAIN pending = {calls[c].id : c \in {x \in CallIds : calls[x].pc # "done"}}

\* C5 amended: the pending table holds only ids of calls that have not returned
\* or raised yet, each mapped to its own call; it holds the id of every such
\* call whose future is still pending (the listener removes the entry when it
\* completes the future, before the call resumes); the id of a call that
\* returned or raised is not in it.
C5_PendingTable ==
    /\ \A i \in DOMAIN pending :
           /\ pending[i] \in CallIds
           /\ calls[pending[i]].id = i
           /\ calls[pending[i]].pc # "done"
           /\ calls[pending[i]].fut \in {"pending", "cancelled"}
    /\ \A c \in CallIds :
           /\ calls[c].pc # "done" /\ calls[c].fut = "pending" =>
                  calls[c].id \in DOMAIN pending /\ pending[calls[c].id] = c
           /\ calls[c].pc = "done" => calls[c].id \notin DOMAIN pending

\* The listener has completed a call's future and removed its entry; the call
\* has not resumed yet, and another call is still in the table.
C5_Witness ==
    \E c, d \in CallIds :
        /\ calls[c].pc = "wait" /\ calls[c].fut = "result"
        /\ calls[c].id \notin DOMAIN pending
        /\ calls[d].id \in DOMAIN pending

TimesOut(c) ==
    \/ calls[c].fut = "pending" /\ calls'[c].fut = "cancelled"
    \/ calls[c].pc = "wait" /\ calls[c].fut = "cancelled" /\ calls'[c].pc = "done"

\* C7: a step in which one call times out leaves every other call as it is,
\* and leaves its entry in the pending table.
C7_TimeoutLeavesSiblings ==
    [][\A c \in CallIds : TimesOut(c) =>
          \A d \in CallIds \ {c} :
              /\ calls'[d] = calls[d]
              /\ calls[d].id \in DOMAIN pending => calls[d].id \in DOMAIN pending']_vars

\* One call has timed out and raised while another call, made before it, is
\* still waiting with its entry in the pending table.
C7_Witness ==
    \E c, d \in CallIds :
        /\ d < c
        /\ calls[c].out = "timeout"
        /\ calls[d].pc = "wait" /\ calls[d].fut = "pending"
        /\ calls[d].id \in DOMAIN pending

\* C8: the client is Ready only after the handshake request got a result and
\* the catalog request got a result that carries the tool catalog.
C8_ReadyOnlyWithCatalog ==
    (connected \/ connPc = "ready") =>
        /\ Len(calls) >= 2
        /\ calls[1].method = "initialize" /\ calls[1].out = "result"
        /\ calls[2].method = "tools/list" /\ calls[2].out = "result"
        /\ calls[2].got.body = "tools"

\* C9: after a connect() that failed the client is not connected and holds no
\* open transport.
C9_FailedConnectIsClosed ==
    connPc = "failed" =>
        /\ ~connected
        /\ websocket # 0 => sock[websocket] = "closed"

\* C10: disconnect() is idempotent: a client state after disconnect() is a
\* state disconnect() leaves as it is, and each step of a disconnect() taken
\* on such a state changes nothing a caller can observe.
C10_DisconnectIdempotent ==
    /\ [](Disconnected(Disconnected(Obs)) = Disconnected(Obs))
    /\ [][discPc' # discPc /\ Obs = Disconnected(Obs) => Obs' = Obs]_vars

\* A second disconnect() is under way on a client that a disconnect() has
\* closed, with a call still waiting.
C10_Witness ==
    /\ discPc = "again"
    /\ \E c \in CallIds : calls[c].pc = "wait"

\* frame f is one the listener drops: not valid JSON or not a valid envelope,
\* or carrying an id that matches no pending request
Dropped(f) == f.body = "invalid" \/ f.id = "" \/ f.id \notin DOMAIN pending

\* C11: a step in which the listener handles a frame that is invalid or whose
\* id matches no pending request leaves the pending table as it is, completes
\* no call (no future, no delivered frame, no position and no outcome changes)
\* and leaves the listener running.
C11_ListenerDropsBadFrames ==
    [][\A k \in Socks : \A f \in Frames(k) :
          Dropped(f) /\ HandleMessage(f) =>
              /\ pending' = pending
              /\ \A c \in CallIds :
                     /\ calls'[c].fut = calls[c].fut
                     /\ calls'[c].got = calls[c].got
                     /\ calls'[c].pc = calls[c].pc
                     /\ calls'[c].out = calls[c].out
              /\ listener'[k] = "running"]_vars

\* The listener handled a frame carrying the id of a call that had timed out
\* (an id that matches no pending request); it is still running, and it has
\* completed the future of a call that is waiting.
C11_Witness ==
    \E c, d \in CallIds :
        /\ calls[c].late
        /\ calls[d].pc = "wait" /\ calls[d].fut \in {"result", "exception"}
        /\ listener[calls[d].sock] = "running"

(* ------------------------ claims on ToolExecutor ----------------------- *)
\* the last operation was execute_tool
Ran == ret.op = "execute_tool"

\* C14: execute_tool never raises: whatever the name and however the handler
\* or the remote call ends, the outcome comes back as a returned value.
C14_ExecuteNeverRaises ==
    Ran => ~ret.out.raised

\* name is registered: a local tool name, or the qualified or the bare name of
\* a tool in the catalog of a server of the registry
Registered(reg, name) ==
    \/ name \in BUILTIN_TOOLS
    \/ \E k \in Servers(reg) : \E i \in 1..Len(reg[k].tools) :
           \/ name = Qualified(reg[k].name, reg[k].tools[i])
           \/ name = reg[k].tools[i]

\* C15: execute_tool on a name that is not registered raises the tool-not-found
\* error whose message carries exactly that name, and invokes no handler and no
\* client.
C15_UnregisteredIsNotFound ==
    Ran /\ ~Registered(mcp_clients, ret.tool_name) =>
        /\ ret.out.raised /\ ret.out.exc = "ValueError"
        /\ ret.out.text = ret.tool_name
        /\ invoked = <<>>

\* C16: for every remote entry of the catalog list_tools reports, execute_tool
\* on the entry's name makes exactly one call_tool, on the client of the
\* entry's server, with the entry's bare tool name and the arguments as given.
C16_CatalogAndDispatchAgree ==
    Ran =>
        \A i \in DOMAIN list_tools(mcp_clients) :
            LET e == list_tools(mcp_clients)[i]
            IN  e.type = "mcp" /\ e.name = ret.tool_name =>
                    /\ Len(invoked) = 1
                    /\ invoked[1].target = "mcp"
                    /\ invoked[1].server = e.server
                    /\ invoked[1].tool = e.tool
                    /\ invoked[1].arguments = ret.arguments

\* C17: no two entries of the catalog list_tools returns have the same name.
C17_CatalogNamesUnique ==
    ret.op = "list_tools" =>
        \A i, j \in DOMAIN ret.value :
            i # j => ret.value[i].name # ret.value[j].name

\* the servers whose prefix tool name n starts with / whose catalog holds n
PrefixServers(n) ==
    {k \in Servers(mcp_clients) : startswith(n, Prefix(mcp_clients[k].name))}

BareServers(n) ==
    {k \in Servers(mcp_clients) :
        \E i \in 1..Len(mcp_clients[k].tools) : mcp_clients[k].tools[i] = n}

\* C18: execute_tool resolves the name in a fixed order: a local tool name goes
\* to the local handler and to no client; otherwise a name with the prefix of
\* a server goes to such a server (the first of the registry) without the
\* prefix; otherwise a name a catalog holds goes to such a server (the first)
\* as it is; otherwise nothing is invoked.
C18_ResolutionOrder ==
    Ran =>
        LET n == ret.tool_name
        IN  /\ n \in BUILTIN_TOOLS =>
                   /\ Len(invoked) = 1
                   /\ invoked[1].target = "builtin" /\ invoked[1].tool = n
                   /\ invoked[1].arguments = ret.arguments
                   /\ ~invoked[1].sent
            /\ n \notin BUILTIN_TOOLS /\ PrefixServers(n) # {} =>
                   /\ Len(invoked) = 1
                   /\ invoked[1].target = "mcp"
                   /\ \E k \in PrefixServers(n) :
                          /\ \A j \in PrefixServers(n) : k <= j
                          /\ invoked[1].server = mcp_clients[k].name
                          /\ Prefix(mcp_clients[k].name) \o invoked[1].tool = n
                   /\ invoked[1].arguments = ret.arguments
            /\ n \notin BUILTIN_TOOLS /\ PrefixServers(n) = {} /\ BareServers(n) # {} =>
                   /\ Len(invoked) = 1
                   /\ invoked[1].target = "mcp"
                   /\ \E k \in BareServers(n) :
                          /\ \A j \in BareServers(n) : k <= j
                          /\ invoked[1].server = mcp_clients[k].name
                   /\ invoked[1].tool = n
                   /\ invoked[1].arguments = ret.arguments
            /\ n \notin BUILTIN_TOOLS /\ PrefixServers(n) = {} /\ BareServers(n) = {} =>
                   invoked = <<>> /\ ret.out.raised

\* execute_tool ran on a name that carries the prefix of one server and is
\* held as a bare name by the catalog of another server that comes earlier in
\* the registry.
C18_Witness ==
    /\ Ran
    /\ ret.tool_name \notin BUILTIN_TOOLS
    /\ PrefixServers(ret.tool_name) # {}
    /\ \E k \in BareServers(ret.tool_name) :
           \A j \in PrefixServers(ret.tool_name) : k < j

(* ------------------------ claims on TerminalAgent ---------------------- *)
\* the entry e of a reply reports the tool call tc
EntryOf(e, tc) ==
    \/ e.kind = "error" /\ e.tool = tc.name
    \/ e.kind = "executed" /\ e.tool = tc.name /\ tc.name \notin BUILTIN_TOOLS
    \/ e.kind = "formatted" /\ tc.name \in BUILTIN_TOOLS

\* the reply is made of the model's content, if there is any, and of one entry
\* for each of the tool calls tcs, in their order
Reports(reply, content, tcs) ==
    LET off == IF content # "" THEN 1 ELSE 0
    IN  /\ Len(reply) = off + Len(tcs)
        /\ off = 1 => reply[1] = Part("text", <<>>, content)
        /\ \A j \in 1..Len(tcs) : EntryOf(reply[off + j], tcs[j])

\* the handlers and clients invoked for the tool calls tcs: one invocation for
\* each call whose name resolves, in the order of the calls
RECURSIVE Expected(_)
Expected(tcs) ==
    IF tcs = <<>> THEN <<>>
    ELSE LET tc == tcs[Len(tcs)]
         IN  Expected(SubSeq(tcs, 1, Len(tcs) - 1))
             \o Invocations(mcp_clients, Resolve(mcp_clients, tc.name),
                            json_loads(tc.arguments).value)

\* the turn that is executing tool calls ends in this step
ToolTurnEnds == turn.pc = "tools" /\ turn'.pc = "idle"

\* C12: when a turn in which the model requested tool calls c1..cn ends, every
\* ci has been executed once and in that order, and the reply holds the
\* model's text, if any, and then exactly n entries in that order; the entry
\* of a call that failed is an error entry naming its tool.
C12_ToolCallsInOrder ==
    [][ToolTurnEnds =>
          /\ Reports(ret'.reply, turn.response.content, turn.response.tool_calls)
          /\ invoked' = Expected(turn.response.tool_calls)]_allvars

\* The same for the turns in which every argument payload can be parsed.
C12_InOrderWhenParsed ==
    [][ToolTurnEnds
       /\ (\A j \in 1..Len(turn.response.tool_calls) :
               ~json_loads(turn.response.tool_calls[j].arguments).raised) =>
          /\ Reports(ret'.reply, turn.response.content, turn.response.tool_calls)
          /\ invoked' = Expected(turn.response.tool_calls)]_allvars

\* C13: the round of a tool call whose argument payload cannot be parsed adds
\* an error entry naming that tool to the results gathered so far, which stay
\* as they are, and the turn goes on: to the next call, or, after the last, to a
\* reply made of all the entries; the reply is not the apology.
C13_BadPayloadFailsOneCall ==
    [][turn.pc = "tools"
       /\ json_loads(turn.response.tool_calls[turn.i].arguments).raised
       /\ turn' # turn =>
          LET tc == turn.response.tool_calls[turn.i]
              kept(res) == /\ Len(res) = Len(turn.results) + 1
                           /\ SubSeq(res, 1, Len(turn.results)) = turn.results
                           /\ res[Len(res)].kind = "error"
                           /\ res[Len(res)].tool = tc.name
          IN  /\ ret'.reply # Apology
              /\ IF turn.i < Len(turn.response.tool_calls)
                 THEN turn'.pc = "tools" /\ turn'.i = turn.i + 1 /\ kept(turn'.results)
                 ELSE /\ ret'.done
                      /\ \E res \in {SubSeq(ret'.reply, Len(ret'.reply) - Len(turn.results),
                                            Len(ret'.reply))} :
                             kept(res)]_allvars

\* the responses with which the model service fails
Failing == {r \in Responses(0) : r.kind \in {"raise", "malformed"}}

\* C19: a turn in which the model service fails ends with process_message
\* returning the apology, a single text, without raising, and the agent is at
\* rest again; and a process_message that follows a failed turn calls the
\* model with the history: the earlier turns and the new message.
C19_ModelFailureIsApology ==
    /\ [][\A r \in Failing : ModelResponds(r) =>
              /\ ret'.done /\ ~ret'.raised
              /\ ret'.reply = Apology /\ Len(ret'.reply) = 1
              /\ turn'.pc = "idle"]_allvars
    /\ [][turn.pc = "idle" /\ ret.op = "process_message" /\ ret.reply = Apology
          /\ turn'.pc # "idle" =>
              /\ turn'.pc = "llm"
              /\ Len(conversation_history') <= 10 =>
                     turn'.request =
                         << [role |-> "system", content |-> system_prompt] >>
                         \o conversation_history']_allvars
    /\ [](ret.op = "process_message" => ~ret.raised)

\* A turn in which the model service failed, and after it a turn that ended
\* with the model's answer.
C19_Witness ==
    /\ Len(conversation_history) = 4
    /\ conversation_history[2].content = Apology
    /\ conversation_history[4].content # Apology
    /\ turn.pc = "idle" /\ ret.op = "process_message" /\ ret.done

\* C20: a turn in which the model service fails changes the conversation
\* history by the user's entry alone: entering the turn appends that entry,
\* and the failure of the model call leaves the history as it is.
C20_FailedTurnKeepsHistory ==
    /\ [][turn.pc = "idle" /\ turn'.pc = "llm" =>
              conversation_history' =
                  Append(conversation_history,
                         [role |-> "user", content |-> turn'.message])]_allvars
    /\ [][\A r \in Failing : ModelResponds(r) =>
              conversation_history' = conversation_history]_allvars

(* ------------------------- claims on the history ---------------------- *)
\* C21: the conversation history only grows, by two entries for every
\* process_message call that returns: entering the call appends the user
\* entry with the message, nothing touches the history while the call runs,
\* and the return appends the assistant entry whose content is the reply
\* returned; outside a call the history stays as it is.  With a model client
\* and without one alike.
C21_HistoryGrowsByTurns ==
    /\ [][turn.pc = "idle" /\ turn'.pc # "idle" =>
              /\ turn'.pc = (IF llm_client THEN "llm" ELSE "simple")
              /\ conversation_history' =
                     Append(conversation_history,
                            [role |-> "user", content |-> turn'.message])]_allvars
    /\ [][turn'.pc # "idle" /\ turn.pc # "idle" =>
              conversation_history' = conversation_history]_allvars
    /\ [][turn.pc # "idle" /\ turn'.pc = "idle" /\ ~ret'.raised =>
              /\ ret'.op = "process_message" /\ ret'.done
              /\ conversation_history' =
                     Append(conversation_history,
                            [role |-> "assistant", content |-> ret'.reply])]_allvars
    /\ [][turn.pc = "idle" /\ turn'.pc = "idle" =>
              conversation_history' = conversation_history]_allvars

\* Two turns of an agent without a model client have returned.
C21_Witness ==
    /\ ~llm_client
    /\ turn.pc = "idle" /\ ret.op = "process_message" /\ ret.done /\ ~ret.raised
    /\ Len(conversation_history) = 4
    /\ conversation_history[3].role = "user"
    /\ conversation_history[4] = [role |-> "assistant", content |-> ret.reply]
    /\ ret.reply[1].kind = "help"

\* C22: with a model client, a message makes one call of the model: the call
\* is made on entering the turn, when no tool has been executed for it; the
\* response ends the call, and from the loop over the tool calls the turn
\* only ends, it never goes back to the model; the request is the one built
\* on entering the turn, so no tool result is part of it.
C22_OneModelCallPerMessage ==
    /\ [][llm_client /\ turn.pc = "idle" /\ turn'.pc # "idle" =>
              turn'.pc = "llm" /\ invoked' = <<>> /\ turn'.results = <<>>]_allvars
    /\ [](turn.pc = "llm" => invoked = <<>> /\ turn.results = <<>>)
    /\ [][turn.pc = "llm" => turn'.pc \in {"llm", "tools", "idle"}]_allvars
    /\ [][turn.pc = "tools" =>
              /\ turn'.pc \in {"tools", "idle"}
              /\ turn'.pc = "tools" => turn'.request = turn.request]_allvars
    /\ [][turn.pc = "llm" /\ turn'.pc = "llm" => UNCHANGED turn]_allvars
    /\ [](turn.pc # "idle" /\ llm_client =>
              \A k \in 1..Len(turn.request) :
                  turn.request[k].role \in {"system", "user", "assistant"})

\* A turn in which the model asked for two tools has ended after both ran.
C22_Witness ==
    /\ llm_client
    /\ turn.pc = "idle" /\ ret.op = "process_message" /\ ret.done
    /\ Len(invoked) = 2
    /\ Len(conversation_history) = 2

(* ----------------------- claims on the built-in tools ----------------- *)
\* C26: on an agent without a model client and without servers, a message
\* 'run <cmd>' executes run_command once, with the command <cmd>, and no other
\* tool; and when the command runs to completion within the default timeout
\* the reply carries its exit code and its captured output.
C26_RunRepliesWithOutput ==
    [][/\ turn.pc = "simple" /\ turn'.pc = "idle"
       /\ simple_command(turn.message).tool = run_command
       => LET cmd == strip(From(strip(turn.message), 4))
          IN  /\ invoked' = << [target |-> "builtin", server |-> <<>>,
                               tool |-> run_command,
                               arguments |-> [command |-> cmd], sent |-> FALSE] >>
              /\ ret'.done /\ ~ret'.raised
              /\ Process(cmd).seconds <= 30 =>
                     /\ ret'.reply[1].kind = "completed"
                     /\ ret'.reply[1].detail.return_code = Process(cmd).returncode
                     /\ ret'.reply[1].detail.stdout = Process(cmd).stdout]_allvars

\* the word is part of the message
Contains(text, word) == \E i \in 1..Len(text) : text[i] = word

\* C27: CommandRunner.execute on a command that does not finish within the
\* timeout returns, without raising, a result with success false and an error
\* text that contains the word timeout.
C27_TimeoutIsReported ==
    ret.op = "run_command" /\ "command" \in DOMAIN ret.arguments
    /\ Process(ret.arguments["command"]).seconds > Get(ret.arguments, "timeout", 30)
    => /\ ~ret.out.raised
       /\ ~ret.out.value.success
       /\ "error" \in DOMAIN ret.out.value
       /\ Contains(ret.out.value.error, "timeout")

\* C28: write_file(path, c) that overwrites, then read_file(path) with c of at
\* most max_lines lines: both succeed, the file holds c, and the content
\* read_file returns is c.
C28_WriteReadRoundTrip ==
    [][/\ ret.op = "write_file" /\ "append" \notin DOMAIN ret.arguments
       /\ ret'.op = "read_file"
       /\ ret'.arguments["file_path"] = ret.arguments["file_path"]
       /\ Len(readlines(ret.arguments["content"])) <= Get(ret'.arguments, "max_lines", 1000)
       => /\ ~ret.out.raised /\ ret.out.value.success
          /\ ~ret'.out.raised /\ ret'.out.value.success
          /\ files[ret.arguments["file_path"]] = ret.arguments["content"]
          /\ ret'.out.value.content = ret.arguments["content"]]_allvars

\* (C28, for texts without white space at the end of a line: holds)
C28_RoundTripOfStrippedLines ==
    [][/\ ret.op = "write_file" /\ "append" \notin DOMAIN ret.arguments
       /\ ret'.op = "read_file"
       /\ ret'.arguments["file_path"] = ret.arguments["file_path"]
       /\ Len(readlines(ret.arguments["content"])) <= Get(ret'.arguments, "max_lines", 1000)
       /\ join(readlines(ret.arguments["content"])) = ret.arguments["content"]
       /\ \A i \in 1..Len(readlines(ret.arguments["content"])) :
              rstrip(readlines(ret.arguments["content"])[i])
                  = readlines(ret.arguments["content"])[i]
       => /\ ~ret.out.raised /\ ret.out.value.success
          /\ ~ret'.out.raised /\ ret'.out.value.success
          /\ files[ret.arguments["file_path"]] = ret.arguments["content"]
          /\ ret'.out.value.content = ret.arguments["content"]]_allvars

(* ------------------- claims on the request to the model --------------- *)
\* the turns that precede the message of the turn in progress
Earlier == SubSeq(conversation_history, 1, Len(conversation_history) - 1)

\* the entries of the request between the system prompt and the new message
Window == SubSeq(turn.request, 2, Len(turn.request) - 1)

\* C23: the request the model is called with is the system prompt, then a
\* window of the turns that precede the new message, then the new message as
\* its last entry.  The window is the end of the earlier history, in the
\* original order, of the nine most recent turns (all of them when they are
\* fewer), so that window and new message are at most ten turns; no older
\* turn is sent, and the new message is sent once.
C23_RequestIsBoundedWindow ==
    turn.pc = "llm" =>
        /\ Len(turn.request) >= 2
        /\ turn.request[1] = [role |-> "system", content |-> system_prompt]
        /\ turn.request[Len(turn.request)] = [role |-> "user", content |-> turn.message]
        /\ conversation_history[Len(conversation_history)]
               = [role |-> "user", content |-> turn.message]
        /\ Len(Window) = (IF Len(Earlier) < 9 THEN Len(Earlier) ELSE 9)
        /\ Len(Window) + 1 <= 10
        /\ Window = SubSeq(Earlier, Len(Earlier) - Len(Window) + 1, Len(Earlier))

\* The sixth message of a conversation: eleven turns recorded, the two oldest
\* are not sent.
C23_Witness ==
    /\ turn.pc = "llm"
    /\ Len(conversation_history) = 11
    /\ Len(Window) = 9
    /\ Window[1] = conversation_history[2]

\* C29: the messages after the system prompt alternate user, assistant, ...:
\* they begin with a user message and end with the new user message.
C29_RequestAlternates ==
    turn.pc = "llm" =>
        \A i \in 2..Len(turn.request) :
            turn.request[i].role = (IF i % 2 = 0 THEN "user" ELSE "assistant")

\* C24: the tools offered to the model are the catalog: every entry of
\* list_tools() is offered once, under its catalog name and in catalog order,
\* with the parameter schema the tool declares, so that every parameter name
\* offered is one the tool declares.
C24_OfferedSchemaIsDeclared ==
    turn.pc = "llm" =>
        LET catalog == list_tools(mcp_clients)
        IN  /\ Len(turn.tools) = Len(catalog)
            /\ \A i \in 1..Len(catalog) :
                  /\ turn.tools[i].name = catalog[i].name
                  /\ turn.tools[i].parameters = catalog[i].schema
                  /\ turn.tools[i].parameters.properties \subseteq catalog[i].schema.properties

\* (C24, names and order alone, and the schemas of the remote tools: holds)
C24_OfferedNamesAreCatalog ==
    turn.pc = "llm" =>
        LET catalog == list_tools(mcp_clients)
        IN  /\ Len(turn.tools) = Len(catalog)
            /\ \A i \in 1..Len(catalog) :
                  /\ turn.tools[i].name = catalog[i].name
                  /\ catalog[i].type = "mcp" =>
                         turn.tools[i].parameters = catalog[i].schema

(* --------------------- claims on ToolExecutor.initialize -------------- *)
\* the names of the servers of a configuration, in its order
Names(config) == [i \in 1..Len(config) |-> config[i].name]

IsEnabled(s) == s.enabled

HasConnected(s) == s.enabled /\ s.fate = "connected"

\* C25: initialize() does not raise whatever the connections do; connect() is
\* called once for every enabled server, the servers after a failed one
\* included, and for no disabled server; the registry holds exactly the
\* servers whose connect() returned True; and with any registry the local
\* tools are listed and execute_tool reaches their handlers.
C25_FailedServerIsSkipped ==
    /\ [][ret'.op = "ToolExecutor.initialize" =>
              /\ ~ret'.raised
              /\ [i \in 1..Len(invoked') |-> invoked'[i].server]
                     = Names(SelectSeq(ret'.config, IsEnabled))
              /\ \A i \in 1..Len(invoked') : invoked'[i].target = "connect"
              /\ [k \in Servers(mcp_clients') |-> mcp_clients'[k].name]
                     = Names(SelectSeq(ret'.config, HasConnected))
              /\ \A k \in Servers(mcp_clients') : mcp_clients'[k].connected]_allvars
    /\ [](\A i \in DOMAIN BuiltinOrder :
              /\ list_tools(mcp_clients)[i].name = BuiltinOrder[i]
              /\ list_tools(mcp_clients)[i].type = "builtin"
              /\ Resolve(mcp_clients, BuiltinOrder[i]).rule = 1)
    /\ [](ret.op = "execute_tool" /\ ret.tool_name \in BUILTIN_TOOLS =>
              /\ Len(invoked) = 1
              /\ invoked[1].target = "builtin" /\ invoked[1].tool = ret.tool_name)

\* The connection to the first server of the configuration raised, and the
\* second server is the one registered.
C25_Witness ==
    /\ ret.op = "ToolExecutor.initialize"
    /\ Len(ret.config) = 2
    /\ ret.config[1].enabled /\ ret.config[1].fate = "raises"
    /\ ret.config[2].enabled /\ ret.config[2].fate = "connected"
    /\ Len(invoked) = 2
    /\ Len(mcp_clients) = 1 /\ mcp_clients[1].name = ret.config[2].name

(* ------------------- claims on a client not connected ----------------- *)
\* C30: call_tool on a client that is not connected raises RuntimeError at
\* once and changes nothing of the client: no message id is consumed, no
\* entry is put in the pending table, no request is made.  A client is not
\* connected before connect() was called, when its connect() has failed, and
\* when disconnect() returns; so after cleanup(), which is disconnect() of
\* every client, a dispatch to a remote tool ends in that RuntimeError.
C30_NotConnectedCallChangesNothing ==
    /\ [][ret' # ret /\ ret'.op = "call_tool" =>
              /\ ~connected
              /\ ret'.raised /\ ret'.exc = "RuntimeError"
              /\ UNCHANGED vars]_allvars
    /\ [][~connected =>
              \A c \in 1..Len(calls') :
                  c > Len(calls) => calls'[c].owner # "call_tool"]_allvars
    /\ [](connPc = "idle" => ~connected)
    /\ [][connPc # "failed" /\ connPc' = "failed" => ~connected']_allvars
    /\ [][discPc # "idle" /\ discPc' = "idle" => ~connected']_allvars

\* A client that was connected and has been disconnected, and a call_tool
\* on it that was refused.
C30_Witness ==
    /\ ret.op = "call_tool" /\ ret.raised
    /\ connPc = "ready" /\ tools = "catalog"
    /\ discPc = "idle" /\ ~connected
    /\ websocket # 0 /\ sock[websocket] = "closed"
    /\ \E c \in CallIds : calls[c].owner = "call_tool"

\* (C30, in the dispatcher: cleanup() leaves no client connected, and a
\* dispatch to a client that is not connected raises RuntimeError and sends
\* nothing: holds)
C30_NoContactAfterCleanup ==
    /\ [][ret' # ret /\ ret'.op = "cleanup" =>
              \A k \in Servers(mcp_clients') : ~mcp_clients'[k].connected]_allvars
    /\ [](ret.op = "execute_tool" /\ invoked # <<>> =>
              \A k \in Servers(mcp_clients) :
                  /\ invoked[1].target = "mcp"
                  /\ mcp_clients[k].name = invoked[1].server
                  /\ ~mcp_clients[k].connected
                  => /\ ret.out.raised /\ ret.out.exc = "RuntimeError"
                     /\ ~invoked[1].sent)

====
